---- MODULE Spec2Model ----
(***************************************************************************)
(* RegSet (onig/src/regset.rs): a set of compiled regular expressions      *)
(* searched together.  The module models the wrapper's operations, the     *)
(* ownership of the compiled regexes it hands to the engine, and the       *)
(* engine's regset primitives the wrapper calls.                           *)
(***************************************************************************)
EXTENDS Integers, Sequences, FiniteSets, TLC

\* ------------------------------------------------------------------ bounds
MaxTextLen == 2
MaxPatterns == 2
MaxRegex == 3

\* ------------------------------------------------------- engine constants
ONIG_NORMAL == 0
ONIG_MISMATCH == 0 - 1
ONIGERR_MEMORY == 0 - 5
ONIGERR_INVALID_ARGUMENT == 0 - 30
ONIGERR_PREMATURE_END_OF_CHAR_CLASS == 0 - 103

\* ------------------------------------------------------------ input sets
Chars == {"a", "A", "1"}
PatternStrings == {"\\d+", "([a-z]+)", "a*", "["}
RegexOptionsSet == {"REGEX_OPTION_NONE", "REGEX_OPTION_IGNORECASE"}
SearchOptionsSet == {"SEARCH_OPTION_NONE"}
RegSetLead == {"Position", "Regex", "PriorityToRegexOrder"}

Texts == UNION {[1..n -> Chars] : n \in 0..MaxTextLen}
PatternLists == UNION {[1..n -> PatternStrings] : n \in 0..MaxPatterns}

\* ---------------------------------------------------------- Rust values
None == [tag |-> "None"]
Some(v) == [tag |-> "Some", val |-> v]
Ok(v) == [tag |-> "Ok", val |-> v]
Err(e) == [tag |-> "Err", val |-> e]
Error_from_code(err) == [kind |-> "code", code |-> err]
Error_custom(index, len) ==
  [kind |-> "custom",
   msg |-> "Index {} is out of bounds for RegSet with {} regexes",
   index |-> index, len |-> len]

\* -------------------------------------------------- the pattern engine
\* One compiled regex: the pattern string and the options it was compiled
\* with, and how many times it has been released.
IsValidPattern(p) == p # "["

CharClass(p, opts) ==
  CASE p = "\\d+" -> {"1"}
    [] p \in {"([a-z]+)", "a*"} ->
         IF opts = "REGEX_OPTION_IGNORECASE" THEN {"a", "A"} ELSE {"a"}
    [] OTHER -> {}

MinLen(p) == IF p = "a*" THEN 0 ELSE 1

NumGroups(p) == IF p = "([a-z]+)" THEN 1 ELSE 0

RECURSIVE RunEnd(_, _, _, _)
\* End of the greedy run of class characters that starts at offset s and
\* stays inside [s, to].
RunEnd(cls, text, s, to) ==
  IF s < to /\ text[s + 1] \in cls THEN RunEnd(cls, text, s + 1, to) ELSE s

NoMatch == [matched |-> FALSE, start |-> ONIG_MISMATCH, end |-> ONIG_MISMATCH]

RECURSIVE ScanFrom(_, _, _, _)
\* Try the start offsets s, s + 1, ... up to lim; the first one where the
\* pattern matches gives the match.
ScanFrom(reg, text, s, lim) ==
  IF s > lim THEN NoMatch
  ELSE LET e == RunEnd(CharClass(reg.pattern, reg.options), text, s, lim)
       IN IF e - s >= MinLen(reg.pattern)
          THEN [matched |-> TRUE, start |-> s, end |-> e]
          ELSE ScanFrom(reg, text, s + 1, lim)

\* The engine's single-pattern search: the leftmost match of reg that
\* starts at or after from and ends at or before to.
match_in_range(reg, text, from, to) ==
  ScanFrom(reg, text, from, IF to <= Len(text) THEN to ELSE Len(text))

\* The group spans of a match: group 0 is the whole match, and the one
\* capturing group of "([a-z]+)" spans the whole match too.
RegionOf(reg, m) ==
  [g \in 1..(1 + NumGroups(reg.pattern)) |-> <<m.start, m.end>>]

\* ------------------------------------------------- compiled regex objects
\* heap[id] is the compiled regex with handle id.
NewRegex(pattern, options) ==
  [pattern |-> pattern, options |-> options, freed |-> 0]

\* Regex::with_options: compile pattern with options under the default
\* syntax; the handle of the new object, or the engine's error.
Regex_with_options(h, pattern, options) ==
  IF IsValidPattern(pattern)
  THEN [err |-> ONIG_NORMAL, heap |-> Append(h, NewRegex(pattern, options)),
        reg |-> Len(h) + 1]
  ELSE [err |-> ONIGERR_PREMATURE_END_OF_CHAR_CLASS, heap |-> h, reg |-> 0]

\* onig_free, which is also what dropping a Regex value does.
onig_free(h, reg) == [h EXCEPT ![reg].freed = @ + 1]

RECURSIVE drop_regexes(_, _)
\* Dropping a Vec<Regex> (or the rest of its iterator) drops each element.
drop_regexes(h, regexes) ==
  IF regexes = <<>> THEN h
  ELSE drop_regexes(onig_free(h, Head(regexes)), Tail(regexes))

\* ------------------------------------------------ engine regset primitives
\* The engine's set is the sequence rs of (reg, region) pairs.
onig_regset_new(ok) ==
  IF ok THEN [err |-> ONIG_NORMAL, rs |-> <<>>]
  ELSE [err |-> ONIGERR_MEMORY, rs |-> <<>>]

onig_regset_number_of_regex(rs) == Len(rs)

onig_regset_add(rs, reg, ok) ==
  IF ok THEN [err |-> ONIG_NORMAL, rs |-> Append(rs, [reg |-> reg, region |-> <<>>])]
  ELSE [err |-> ONIGERR_MEMORY, rs |-> rs]

\* onig_regset_replace that swaps the slot and leaves the old regex alone.
onig_regset_replace_KeepOld(h, rs, at, reg, ok) ==
  IF at < 0 \/ at >= Len(rs) \/ ~ok
  THEN [err |-> ONIGERR_INVALID_ARGUMENT, heap |-> h, rs |-> rs]
  ELSE [err |-> ONIG_NORMAL, heap |-> h, rs |-> [rs EXCEPT ![at + 1].reg = reg]]

\* Swap reg into slot at (0-based) and release the regex it held.
onig_regset_replace(h, rs, at, reg, ok) ==
  IF at < 0 \/ at >= Len(rs) \/ ~ok
  THEN [err |-> ONIGERR_INVALID_ARGUMENT, heap |-> h, rs |-> rs]
  ELSE [err |-> ONIG_NORMAL,
        heap |-> onig_free(h, rs[at + 1].reg),
        rs |-> [rs EXCEPT ![at + 1].reg = reg]]

\* Release the set and every regex it holds.
onig_regset_free(h, rs) == drop_regexes(h, [i \in 1..Len(rs) |-> rs[i].reg])

\* The region of slot at (0-based) as a slot number, 0 for a null pointer.
onig_regset_get_region(rs, at) ==
  IF at < 0 \/ at >= Len(rs) THEN 0 ELSE at + 1

RECURSIVE regset_resolve_RegexLeadByPosition(_, _, _, _)
\* regset_resolve with the Regex rule dropped: every policy takes the
\* earliest start.
regset_resolve_RegexLeadByPosition(att, i, best, lead) ==
  IF i > Len(att) THEN best
  ELSE LET take == att[i].matched /\ (best = 0 \/ att[i].start < att[best].start)
       IN regset_resolve_RegexLeadByPosition(att, i + 1, IF take THEN i ELSE best, lead)

RECURSIVE regset_resolve_PriorityFirstRegex(_, _, _, _)
\* regset_resolve where PRIORITY_TO_REGEX_ORDER stops at the first slot
\* that matches.
regset_resolve_PriorityFirstRegex(att, i, best, lead) ==
  IF i > Len(att) THEN best
  ELSE LET take ==
             /\ att[i].matched
             /\ IF lead \in {"ONIG_REGSET_REGEX_LEAD",
                             "ONIG_REGSET_PRIORITY_TO_REGEX_ORDER"}
                THEN best = 0
                ELSE best = 0 \/ att[i].start < att[best].start
       IN regset_resolve_PriorityFirstRegex(att, i + 1, IF take THEN i ELSE best, lead)

RECURSIVE regset_resolve(_, _, _, _)
\* Reduce the per-slot attempts att[1..n] to the winning slot (0: none),
\* visiting the slots in index order.
regset_resolve(att, i, best, lead) ==
  IF i > Len(att) THEN best
  ELSE LET take ==
             /\ att[i].matched
             /\ IF lead = "ONIG_REGSET_REGEX_LEAD"
                THEN best = 0
                ELSE best = 0 \/ att[i].start < att[best].start
       IN regset_resolve(att, i + 1, IF take THEN i ELSE best, lead)

RECURSIVE regset_attempts(_, _, _, _, _, _)
\* The attempts of slots i..n, each slot's own leftmost match in
\* [start, range).
regset_attempts(h, rs, i, text, start, range) ==
  IF i > Len(rs) THEN <<>>
  ELSE <<match_in_range(h[rs[i].reg], text, start, range)>>
         \o regset_attempts(h, rs, i + 1, text, start, range)

\* Every slot attempts its own leftmost match in [start, range); each
\* attempt overwrites its slot's region.
onig_regset_search(h, rs, text, start, range, lead, option) ==
  LET att == regset_attempts(h, rs, 1, text, start, range)
      best == regset_resolve(att, 1, 0, lead)
      nrs == [i \in 1..Len(rs) |->
                [reg |-> rs[i].reg,
                 region |-> IF att[i].matched
                            THEN RegionOf(h[rs[i].reg], att[i]) ELSE <<>>]]
  IN [result |-> IF best = 0 THEN ONIG_MISMATCH ELSE best - 1,
      rmatch_pos |-> IF best = 0 THEN 0 ELSE att[best].start,
      rs |-> nrs]

\* ------------------------------------------------------ RegSet (wrapper)
to_onig_lead(lead) ==
  CASE lead = "Position" -> "ONIG_REGSET_POSITION_LEAD"
    [] lead = "Regex" -> "ONIG_REGSET_REGEX_LEAD"
    [] lead = "PriorityToRegexOrder" -> "ONIG_REGSET_PRIORITY_TO_REGEX_ORDER"

\* RegSet::empty_with_options
empty_with_options(h, options, newOk) ==
  LET n == onig_regset_new(newOk)
  IN IF n.err # ONIG_NORMAL
     THEN [ret |-> Err(Error_from_code(n.err)), heap |-> h, raw |-> <<>>]
     ELSE [ret |-> Ok(options), heap |-> h, raw |-> n.rs]

\* RegSet::empty
empty(h, newOk) == empty_with_options(h, "REGEX_OPTION_NONE", newOk)

RECURSIVE compile_loop_LeakOnError(_, _, _, _, _)
\* compile_loop whose failure path leaves the regexes compiled so far alive.
compile_loop_LeakOnError(h, patterns, options, k, regexes) ==
  IF k > Len(patterns)
  THEN [err |-> ONIG_NORMAL, heap |-> h, regexes |-> regexes]
  ELSE LET c == Regex_with_options(h, patterns[k], options)
       IN IF c.err # ONIG_NORMAL
          THEN [err |-> c.err, heap |-> c.heap, regexes |-> <<>>]
          ELSE compile_loop_LeakOnError(c.heap, patterns, options, k + 1,
                                        Append(regexes, c.reg))

RECURSIVE compile_loop_Prepend(_, _, _, _, _)
\* The compile loop pushing each regex at the front of the vector: the
\* slots come out in reverse order.
compile_loop_Prepend(h, patterns, options, k, regexes) ==
  IF k > Len(patterns)
  THEN [err |-> ONIG_NORMAL, heap |-> h, regexes |-> regexes]
  ELSE LET c == Regex_with_options(h, patterns[k], options)
       IN IF c.err # ONIG_NORMAL
          THEN [err |-> c.err, heap |-> drop_regexes(c.heap, regexes),
                regexes |-> <<>>]
          ELSE compile_loop_Prepend(c.heap, patterns, options, k + 1,
                                    <<c.reg>> \o regexes)

RECURSIVE compile_loop(_, _, _, _, _)
\* with_options, lines 110-117: compile the patterns in order into the
\* vector regexes; `?` returns the first failure and drops the vector.
compile_loop(h, patterns, options, k, regexes) ==
  IF k > Len(patterns)
  THEN [err |-> ONIG_NORMAL, heap |-> h, regexes |-> regexes]
  ELSE LET c == Regex_with_options(h, patterns[k], options)
       IN IF c.err # ONIG_NORMAL
          THEN [err |-> c.err, heap |-> drop_regexes(c.heap, regexes),
                regexes |-> <<>>]
          ELSE compile_loop(c.heap, patterns, options, k + 1,
                            Append(regexes, c.reg))

RECURSIVE add_loop(_, _, _, _, _)
\* with_options, lines 127-138: hand each regex to the set.  When the
\* engine refuses the k-th, the set is freed and the k-th regex and the
\* rest of the vector are dropped; otherwise the regex is forgotten.
add_loop(h, rs, regexes, k, addFail) ==
  IF k > Len(regexes)
  THEN [err |-> ONIG_NORMAL, heap |-> h, rs |-> rs]
  ELSE LET a == onig_regset_add(rs, regexes[k], k # addFail)
       IN IF a.err # ONIG_NORMAL
          THEN [err |-> a.err,
                heap |-> drop_regexes(onig_regset_free(h, rs),
                                      SubSeq(regexes, k, Len(regexes))),
                rs |-> <<>>]
          ELSE add_loop(h, a.rs, regexes, k + 1, addFail)

\* RegSet::with_options
with_options(h, patterns, options, newOk, addFail) ==
  IF patterns = <<>> THEN empty_with_options(h, options, newOk)
  ELSE
    LET c == compile_loop(h, patterns, options, 1, <<>>)
    IN IF c.err # ONIG_NORMAL
       THEN [ret |-> Err(Error_from_code(c.err)), heap |-> c.heap, raw |-> <<>>]
       ELSE
         LET n == onig_regset_new(newOk)
         IN IF n.err # ONIG_NORMAL
            THEN [ret |-> Err(Error_from_code(n.err)),
                  heap |-> drop_regexes(c.heap, c.regexes), raw |-> <<>>]
            ELSE
              LET a == add_loop(c.heap, n.rs, c.regexes, 1, addFail)
              IN IF a.err # ONIG_NORMAL
                 THEN [ret |-> Err(Error_from_code(a.err)), heap |-> a.heap,
                       raw |-> <<>>]
                 ELSE [ret |-> Ok(options), heap |-> a.heap, raw |-> a.rs]

\* RegSet::new
new(h, patterns, newOk, addFail) ==
  with_options(h, patterns, "REGEX_OPTION_NONE", newOk, addFail)

\* RegSet::len
len(raw) == onig_regset_number_of_regex(raw)

\* RegSet::is_empty
is_empty(raw) == len(raw) = 0

\* search_with_encoding testing result > 0: a match of slot 0 is dropped.
search_with_encoding_PositiveOnly(h, raw, chars, from, to, lead, options) ==
  LET r == onig_regset_search(h, raw, chars, from, to, to_onig_lead(lead), options)
  IN [ret |-> IF r.result > 0 THEN Some(<<r.result, r.rmatch_pos>>) ELSE None,
      raw |-> r.rs, scan |-> <<from, to>>]

\* search_with_encoding resuming after the match slot 0 holds from the
\* search before, as an iterator over matches would.
search_with_encoding_ResumeAfterMatch(h, raw, chars, from, to, lead, options) ==
  LET resume == IF raw # <<>> /\ raw[1].region # <<>>
                THEN raw[1].region[1][2] ELSE from
      r == onig_regset_search(h, raw, chars, resume, to, to_onig_lead(lead), options)
  IN [ret |-> IF r.result >= 0 THEN Some(<<r.result, r.rmatch_pos>>) ELSE None,
      raw |-> r.rs, scan |-> <<from, to>>]

\* RegSet::search_with_encoding.  scan is the range (start, range) handed
\* to the engine, as offsets from the start of the buffer.
search_with_encoding(h, raw, chars, from, to, lead, options) ==
  LET r == onig_regset_search(h, raw, chars, from, to, to_onig_lead(lead), options)
  IN [ret |-> IF r.result >= 0 THEN Some(<<r.result, r.rmatch_pos>>) ELSE None,
      raw |-> r.rs, scan |-> <<from, to>>]

\* RegSet::find_with_options
find_with_options(h, raw, text, lead, options) ==
  search_with_encoding(h, raw, text, 0, Len(text), lead, options)

\* find passing the Regex lead instead of the Position lead.
find_RegexLead(h, raw, text) ==
  search_with_encoding(h, raw, text, 0, Len(text), "Regex", "SEARCH_OPTION_NONE")

\* RegSet::find
find(h, raw, text) ==
  find_with_options(h, raw, text, "Position", "SEARCH_OPTION_NONE")

\* Region::clone_from_raw
Region_clone_from_raw(raw, region_ptr) == raw[region_ptr].region

\* Captures::new
Captures_new(text, region, offset) ==
  [text |-> text, region |-> region, offset |-> offset]

\* captures_with_options asking the engine for the region of slot 0
\* whatever slot won.
captures_with_options_RegionOfSlot0(h, raw, text, lead, options) ==
  LET f == find_with_options(h, raw, text, lead, options)
  IN IF f.ret.tag = "Some"
     THEN LET regex_index == f.ret.val[1]
              match_pos == f.ret.val[2]
              region_ptr == onig_regset_get_region(f.raw, 0)
          IN IF region_ptr # 0
             THEN [ret |-> Some(<<regex_index,
                                  Captures_new(text,
                                    Region_clone_from_raw(f.raw, region_ptr),
                                    match_pos)>>),
                   raw |-> f.raw, scan |-> f.scan]
             ELSE [ret |-> None, raw |-> f.raw, scan |-> f.scan]
     ELSE [ret |-> None, raw |-> f.raw, scan |-> f.scan]

\* captures_with_options searching by Position whatever lead it is given.
captures_with_options_PositionLead(h, raw, text, lead, options) ==
  LET f == find_with_options(h, raw, text, "Position", options)
  IN IF f.ret.tag = "Some"
     THEN LET regex_index == f.ret.val[1]
              match_pos == f.ret.val[2]
              region_ptr == onig_regset_get_region(f.raw, regex_index)
          IN IF region_ptr # 0
             THEN [ret |-> Some(<<regex_index,
                                  Captures_new(text,
                                    Region_clone_from_raw(f.raw, region_ptr),
                                    match_pos)>>),
                   raw |-> f.raw, scan |-> f.scan]
             ELSE [ret |-> None, raw |-> f.raw, scan |-> f.scan]
     ELSE [ret |-> None, raw |-> f.raw, scan |-> f.scan]

\* RegSet::captures_with_options
captures_with_options(h, raw, text, lead, options) ==
  LET f == find_with_options(h, raw, text, lead, options)
  IN IF f.ret.tag = "Some"
     THEN LET regex_index == f.ret.val[1]
              match_pos == f.ret.val[2]
              region_ptr == onig_regset_get_region(f.raw, regex_index)
          IN IF region_ptr # 0
             THEN [ret |-> Some(<<regex_index,
                                  Captures_new(text,
                                    Region_clone_from_raw(f.raw, region_ptr),
                                    match_pos)>>),
                   raw |-> f.raw, scan |-> f.scan]
             ELSE [ret |-> None, raw |-> f.raw, scan |-> f.scan]
     ELSE [ret |-> None, raw |-> f.raw, scan |-> f.scan]

\* captures searching by the Regex lead.
captures_RegexLead(h, raw, text) ==
  captures_with_options(h, raw, text, "Regex", "SEARCH_OPTION_NONE")

\* RegSet::captures
captures(h, raw, text) ==
  captures_with_options(h, raw, text, "Position", "SEARCH_OPTION_NONE")

\* The bytes the engine can read in a call of captures_with_encoding:
\* beg.add(from) and beg.add(to) are not checked against the buffer, so a
\* range that leaves it reads whatever lies beyond.
ScannedMemory(chars, from, to, beyond) ==
  IF from > Len(chars) \/ to > Len(chars) THEN chars \o beyond ELSE chars

\* captures_with_encoding testing result > 0: a match of slot 0 is dropped.
captures_with_encoding_PositiveOnly(h, raw, chars, from, to, lead, options, beyond) ==
  LET r == onig_regset_search(h, raw, ScannedMemory(chars, from, to, beyond),
                              from, to, to_onig_lead(lead), options)
  IN IF r.result > 0
     THEN LET regex_index == r.result
              match_pos == r.rmatch_pos
              region_ptr == onig_regset_get_region(r.rs, regex_index)
          IN IF region_ptr # 0
             THEN [ret |-> Some(<<regex_index,
                                  Captures_new(chars,
                                    Region_clone_from_raw(r.rs, region_ptr),
                                    match_pos)>>),
                   raw |-> r.rs, scan |-> <<from, to>>]
             ELSE [ret |-> None, raw |-> r.rs, scan |-> <<from, to>>]
     ELSE [ret |-> None, raw |-> r.rs, scan |-> <<from, to>>]

\* RegSet::captures_with_encoding.  beyond is the memory after the buffer.
captures_with_encoding(h, raw, chars, from, to, lead, options, beyond) ==
  LET r == onig_regset_search(h, raw, ScannedMemory(chars, from, to, beyond),
                              from, to, to_onig_lead(lead), options)
  IN IF r.result >= 0
     THEN LET regex_index == r.result
              match_pos == r.rmatch_pos
              region_ptr == onig_regset_get_region(r.rs, regex_index)
          IN IF region_ptr # 0
             THEN [ret |-> Some(<<regex_index,
                                  Captures_new(chars,
                                    Region_clone_from_raw(r.rs, region_ptr),
                                    match_pos)>>),
                   raw |-> r.rs, scan |-> <<from, to>>]
             ELSE [ret |-> None, raw |-> r.rs, scan |-> <<from, to>>]
     ELSE [ret |-> None, raw |-> r.rs, scan |-> <<from, to>>]

\* add_pattern without mem::forget: the new regex is dropped on return
\* though the set holds it.
add_pattern_NoForget(h, raw, options, pattern, engineOk) ==
  LET c == Regex_with_options(h, pattern, options)
  IN IF c.err # ONIG_NORMAL
     THEN [ret |-> Err(Error_from_code(c.err)), heap |-> c.heap, raw |-> raw]
     ELSE
       LET new_index == len(raw)
           a == onig_regset_add(raw, c.reg, engineOk)
       IN IF a.err # ONIG_NORMAL
          THEN [ret |-> Err(Error_from_code(a.err)),
                heap |-> onig_free(c.heap, c.reg), raw |-> a.rs]
          ELSE [ret |-> Ok(new_index), heap |-> onig_free(c.heap, c.reg),
                raw |-> a.rs]

\* add_pattern reading len() after the regex was added.
add_pattern_IndexAfterAdd(h, raw, options, pattern, engineOk) ==
  LET c == Regex_with_options(h, pattern, options)
  IN IF c.err # ONIG_NORMAL
     THEN [ret |-> Err(Error_from_code(c.err)), heap |-> c.heap, raw |-> raw]
     ELSE
       LET a == onig_regset_add(raw, c.reg, engineOk)
           new_index == len(a.rs)
       IN IF a.err # ONIG_NORMAL
          THEN [ret |-> Err(Error_from_code(a.err)),
                heap |-> onig_free(c.heap, c.reg), raw |-> a.rs]
          ELSE [ret |-> Ok(new_index), heap |-> c.heap, raw |-> a.rs]

\* add_pattern compiling with the default options instead of the stored
\* ones.
add_pattern_DefaultOptions(h, raw, options, pattern, engineOk) ==
  LET c == Regex_with_options(h, pattern, "REGEX_OPTION_NONE")
  IN IF c.err # ONIG_NORMAL
     THEN [ret |-> Err(Error_from_code(c.err)), heap |-> c.heap, raw |-> raw]
     ELSE
       LET new_index == len(raw)
           a == onig_regset_add(raw, c.reg, engineOk)
       IN IF a.err # ONIG_NORMAL
          THEN [ret |-> Err(Error_from_code(a.err)),
                heap |-> onig_free(c.heap, c.reg), raw |-> a.rs]
          ELSE [ret |-> Ok(new_index), heap |-> c.heap, raw |-> a.rs]

\* RegSet::add_pattern
add_pattern(h, raw, options, pattern, engineOk) ==
  LET c == Regex_with_options(h, pattern, options)
  IN IF c.err # ONIG_NORMAL
     THEN [ret |-> Err(Error_from_code(c.err)), heap |-> c.heap, raw |-> raw]
     ELSE
       LET new_index == len(raw)
           a == onig_regset_add(raw, c.reg, engineOk)
       IN IF a.err # ONIG_NORMAL
          THEN [ret |-> Err(Error_from_code(a.err)),
                heap |-> onig_free(c.heap, c.reg), raw |-> a.rs]
          ELSE [ret |-> Ok(new_index), heap |-> c.heap, raw |-> a.rs]

\* replace_pattern that, when the engine refuses the swap, drops the
\* regex of the slot instead of the new one.
replace_pattern_FreeOldOnReject(h, raw, options, index, pattern, engineOk) ==
  LET regset_len == len(raw)
  IN IF index >= regset_len
     THEN [ret |-> Err(Error_custom(index, regset_len)), heap |-> h, raw |-> raw]
     ELSE
       LET c == Regex_with_options(h, pattern, options)
       IN IF c.err # ONIG_NORMAL
          THEN [ret |-> Err(Error_from_code(c.err)), heap |-> c.heap, raw |-> raw]
          ELSE
            LET r == onig_regset_replace(c.heap, raw, index, c.reg, engineOk)
            IN IF r.err # ONIG_NORMAL
               THEN [ret |-> Err(Error_from_code(r.err)),
                     heap |-> onig_free(r.heap, raw[index + 1].reg), raw |-> r.rs]
               ELSE [ret |-> Ok("unit"), heap |-> r.heap, raw |-> r.rs]

\* replace_pattern that hands the engine slot 0 whatever the index.
replace_pattern_WrongSlot(h, raw, options, index, pattern, engineOk) ==
  LET regset_len == len(raw)
  IN IF index >= regset_len
     THEN [ret |-> Err(Error_custom(index, regset_len)), heap |-> h, raw |-> raw]
     ELSE
       LET c == Regex_with_options(h, pattern, options)
       IN IF c.err # ONIG_NORMAL
          THEN [ret |-> Err(Error_from_code(c.err)), heap |-> c.heap, raw |-> raw]
          ELSE
            LET r == onig_regset_replace(c.heap, raw, 0, c.reg, engineOk)
            IN IF r.err # ONIG_NORMAL
               THEN [ret |-> Err(Error_from_code(r.err)),
                     heap |-> onig_free(r.heap, c.reg), raw |-> r.rs]
               ELSE [ret |-> Ok("unit"), heap |-> r.heap, raw |-> r.rs]

\* replace_pattern compiling the pattern before it checks the index.
replace_pattern_CompileFirst(h, raw, options, index, pattern, engineOk) ==
  LET c == Regex_with_options(h, pattern, options)
  IN IF c.err # ONIG_NORMAL
     THEN [ret |-> Err(Error_from_code(c.err)), heap |-> c.heap, raw |-> raw]
     ELSE
       LET regset_len == len(raw)
       IN IF index >= regset_len
          THEN [ret |-> Err(Error_custom(index, regset_len)),
                heap |-> onig_free(c.heap, c.reg), raw |-> raw]
          ELSE
            LET r == onig_regset_replace(c.heap, raw, index, c.reg, engineOk)
            IN IF r.err # ONIG_NORMAL
               THEN [ret |-> Err(Error_from_code(r.err)),
                     heap |-> onig_free(r.heap, c.reg), raw |-> r.rs]
               ELSE [ret |-> Ok("unit"), heap |-> r.heap, raw |-> r.rs]

\* replace_pattern calling onig_regset_add, as add_pattern does: the new
\* regex lands in a new slot.
replace_pattern_AddsSlot(h, raw, options, index, pattern, engineOk) ==
  LET regset_len == len(raw)
  IN IF index >= regset_len
     THEN [ret |-> Err(Error_custom(index, regset_len)), heap |-> h, raw |-> raw]
     ELSE
       LET c == Regex_with_options(h, pattern, options)
       IN IF c.err # ONIG_NORMAL
          THEN [ret |-> Err(Error_from_code(c.err)), heap |-> c.heap, raw |-> raw]
          ELSE
            LET a == onig_regset_add(raw, c.reg, engineOk)
            IN IF a.err # ONIG_NORMAL
               THEN [ret |-> Err(Error_from_code(a.err)),
                     heap |-> onig_free(c.heap, c.reg), raw |-> a.rs]
               ELSE [ret |-> Ok("unit"), heap |-> c.heap, raw |-> a.rs]

\* RegSet::replace_pattern
replace_pattern(h, raw, options, index, pattern, engineOk) ==
  LET regset_len == len(raw)
  IN IF index >= regset_len
     THEN [ret |-> Err(Error_custom(index, regset_len)), heap |-> h, raw |-> raw]
     ELSE
       LET c == Regex_with_options(h, pattern, options)
       IN IF c.err # ONIG_NORMAL
          THEN [ret |-> Err(Error_from_code(c.err)), heap |-> c.heap, raw |-> raw]
          ELSE
            LET r == onig_regset_replace(c.heap, raw, index, c.reg, engineOk)
            IN IF r.err # ONIG_NORMAL
               THEN [ret |-> Err(Error_from_code(r.err)),
                     heap |-> onig_free(r.heap, c.reg), raw |-> r.rs]
               ELSE [ret |-> Ok("unit"), heap |-> r.heap, raw |-> r.rs]

\* The spans read through a kept Captures value as they would be if the
\* value pointed at the engine's region of its slot.
Captures_region_OfSlot(kept, raw) == raw[kept.val[1] + 1].region

\* Captures::pos, Captures::at on a kept (index, Captures): the spans come
\* from the Region the value owns, whatever the set holds by now.
Captures_region(kept, raw) == kept.val[2].region

\* Drop for RegSet
drop(h, raw) == onig_regset_free(h, raw)

\* ----------------------------------------------------------- the state
VARIABLES
  phase,      \* "init", "live" (a RegSet exists), "failed" (construction
              \* returned Err), "dropped"
  options,    \* RegSet.options
  raw,        \* RegSet.raw: the engine's set, a sequence of (reg, region)
  heap,       \* every regex compiled so far, by handle
  failedIds,  \* handles compiled by a call that then returned Err
  last,       \* the last call: its arguments, its result, the set before it
  thr,        \* per thread sharing &RegSet: where its captures call stands
  held        \* the first (index, Captures) a captures call returned, which
              \* the caller keeps

vars == <<phase, options, raw, heap, failedIds, last, thr, held>>

\* RegSet is Send and Sync and the searches take &self: any number of
\* threads may hold the same set and call them; two are modelled.
Threads == {"t1", "t2"}

Idle == [pc |-> "idle", text |-> <<>>, lead |-> "none", found |-> None]

Call(op, text, lead, index, pattern, ret) ==
  [op |-> op, text |-> text, lead |-> lead, index |-> index,
   pattern |-> pattern, ret |-> ret, pre |-> raw, preHeap |-> Len(heap),
   scan |-> <<0, 0>>]

NewHandles(res) == (Len(heap) + 1)..Len(res.heap)

Init ==
  /\ phase = "init"
  /\ options = "REGEX_OPTION_NONE"
  /\ raw = <<>>
  /\ heap = <<>>
  /\ failedIds = {}
  /\ last = Call("none", <<>>, "none", 0, "", None)
  /\ thr = [t \in Threads |-> Idle]
  /\ held = None

Constructed(op, patterns, opts, res) ==
  /\ phase' = IF res.ret.tag = "Ok" THEN "live" ELSE "failed"
  /\ options' = IF res.ret.tag = "Ok" THEN res.ret.val ELSE options
  /\ raw' = res.raw
  /\ heap' = res.heap
  /\ failedIds' = IF res.ret.tag = "Err" THEN NewHandles(res) ELSE failedIds
  /\ last' = [Call(op, patterns, "none", 0, opts, res.ret) EXCEPT !.pre = <<>>]
  /\ UNCHANGED <<thr, held>>

New ==
  /\ phase = "init"
  /\ \E patterns \in PatternLists, newOk \in BOOLEAN, addFail \in 0..MaxPatterns :
       /\ addFail <= Len(patterns)
       /\ Constructed("new", patterns, "REGEX_OPTION_NONE",
                      new(heap, patterns, newOk, addFail))

WithOptions ==
  /\ phase = "init"
  /\ \E patterns \in PatternLists, opts \in RegexOptionsSet,
        newOk \in BOOLEAN, addFail \in 0..MaxPatterns :
       /\ addFail <= Len(patterns)
       /\ Constructed("with_options", patterns, opts,
                      with_options(heap, patterns, opts, newOk, addFail))

Empty ==
  /\ phase = "init"
  /\ \E newOk \in BOOLEAN :
       Constructed("empty", <<>>, "REGEX_OPTION_NONE", empty(heap, newOk))

EmptyWithOptions ==
  /\ phase = "init"
  /\ \E opts \in RegexOptionsSet, newOk \in BOOLEAN :
       Constructed("empty_with_options", <<>>, opts,
                   empty_with_options(heap, opts, newOk))

Searched(op, text, lead, res) ==
  /\ raw' = res.raw
  /\ held' = IF held = None
                /\ op \in {"captures", "captures_with_options",
                            "captures_with_encoding"}
             THEN res.ret ELSE held
  /\ last' = [Call(op, text, lead, 0, "", res.ret) EXCEPT !.scan = res.scan]
  /\ UNCHANGED <<phase, options, heap, failedIds, thr>>

Find ==
  /\ phase = "live"
  /\ \E text \in Texts : Searched("find", text, "Position", find(heap, raw, text))

FindWithOptions ==
  /\ phase = "live"
  /\ \E text \in Texts, lead \in RegSetLead, so \in SearchOptionsSet :
       Searched("find_with_options", text, lead,
                find_with_options(heap, raw, text, lead, so))

Captures ==
  /\ phase = "live"
  /\ \E text \in Texts :
       Searched("captures", text, "Position", captures(heap, raw, text))

CapturesWithOptions ==
  /\ phase = "live"
  /\ \E text \in Texts, lead \in RegSetLead, so \in SearchOptionsSet :
       Searched("captures_with_options", text, lead,
                captures_with_options(heap, raw, text, lead, so))

\* The scan ranges tried for a buffer: the whole buffer, a later start, and
\* an end one past the buffer.
FromOffsets == {0, 1}
ToOffsets(text) == {Len(text), Len(text) + 1}
\* What lies after the buffer matters only to a range that leaves it.
BeyondBytes(text, from, to) ==
  IF from > Len(text) \/ to > Len(text) THEN {<<c>> : c \in Chars} ELSE {<<>>}

CapturesWithEncoding ==
  /\ phase = "live"
  /\ \E text \in Texts, from \in FromOffsets, lead \in RegSetLead,
        so \in SearchOptionsSet :
       \E to \in ToOffsets(text) :
         \E beyond \in BeyondBytes(text, from, to) :
           Searched("captures_with_encoding", text, lead,
                    captures_with_encoding(heap, raw, text, from, to, lead, so,
                                           beyond))

Mutated(op, index, pattern, res) ==
  /\ raw' = res.raw
  /\ heap' = res.heap
  /\ failedIds' = IF res.ret.tag = "Err"
                  THEN failedIds \cup NewHandles(res) ELSE failedIds
  /\ last' = Call(op, <<>>, "none", index, pattern, res.ret)
  /\ UNCHANGED <<phase, options, thr, held>>

AddPattern ==
  /\ phase = "live"
  /\ Len(heap) < MaxRegex
  /\ \E pattern \in PatternStrings, engineOk \in BOOLEAN :
       Mutated("add_pattern", 0, pattern,
               add_pattern(heap, raw, options, pattern, engineOk))

ReplacePattern ==
  /\ phase = "live"
  /\ Len(heap) < MaxRegex
  /\ \E index \in 0..Len(raw), pattern \in PatternStrings, engineOk \in BOOLEAN :
       Mutated("replace_pattern", index, pattern,
               replace_pattern(heap, raw, options, index, pattern, engineOk))

Drop ==
  /\ phase = "live"
  /\ phase' = "dropped"
  /\ heap' = drop(heap, raw)
  /\ last' = Call("drop", <<>>, "none", 0, "", None)
  /\ UNCHANGED <<options, raw, failedIds, thr, held>>

Next ==
  \/ New \/ WithOptions \/ Empty \/ EmptyWithOptions
  \/ AddPattern \/ ReplacePattern
  \/ Drop

\* The life of one set: construction, mutations, teardown.
Spec == Init /\ [][Next]_vars

\* The searches, applied to every set construction can produce.
ValidPatternLists == {ps \in PatternLists : \A k \in 1..Len(ps) : IsValidPattern(ps[k])}

InitSearch ==
  \E patterns \in ValidPatternLists, opts \in RegexOptionsSet :
    LET res == with_options(<<>>, patterns, opts, TRUE, 0)
    IN /\ phase = "live"
       /\ options = res.ret.val
       /\ raw = res.raw
       /\ heap = res.heap
       /\ failedIds = {}
       /\ last = [op |-> "with_options", text |-> patterns, lead |-> "none",
                  index |-> 0, pattern |-> opts, ret |-> res.ret,
                  pre |-> <<>>, preHeap |-> 0, scan |-> <<0, 0>>]
       /\ thr = [t \in Threads |-> Idle]
       /\ held = None

\* Each run of SpecSearch applies one search to the set it drew.
Fresh == last.op = "with_options"

\* The caller makes the call it has just made once more.
Repeat ==
  \/ /\ last.op = "find"
     /\ Searched("find", last.text, "Position", find(heap, raw, last.text))
  \/ /\ last.op = "find_with_options"
     /\ \E so \in SearchOptionsSet :
          Searched("find_with_options", last.text, last.lead,
                   find_with_options(heap, raw, last.text, last.lead, so))
  \/ /\ last.op = "captures"
     /\ Searched("captures", last.text, "Position",
                 captures(heap, raw, last.text))
  \/ /\ last.op = "captures_with_options"
     /\ \E so \in SearchOptionsSet :
          Searched("captures_with_options", last.text, last.lead,
                   captures_with_options(heap, raw, last.text, last.lead, so))
  \/ /\ last.op = "captures_with_encoding"
     /\ \E so \in SearchOptionsSet,
           beyond \in BeyondBytes(last.text, last.scan[1], last.scan[2]) :
          Searched("captures_with_encoding", last.text, last.lead,
                   captures_with_encoding(heap, raw, last.text, last.scan[1],
                                          last.scan[2], last.lead, so, beyond))

NextSearch ==
  \/ Fresh /\ Find
  \/ Fresh /\ FindWithOptions
  \/ Fresh /\ Captures
  \/ Fresh /\ CapturesWithOptions
  \/ Fresh /\ CapturesWithEncoding
  \/ Repeat

SpecSearch == InitSearch /\ [][NextSearch]_vars

\* The capture searches, applied to a set as built and to a set one of
\* whose slots was replaced since.
InitReplaced ==
  \E patterns \in ValidPatternLists \ {<<>>}, opts \in RegexOptionsSet,
     pattern \in PatternStrings :
    \E index \in 0..(Len(patterns) - 1) :
      LET built == with_options(<<>>, patterns, opts, TRUE, 0)
          res == replace_pattern(built.heap, built.raw, opts, index, pattern, TRUE)
      IN /\ IsValidPattern(pattern)
         /\ phase = "live"
         /\ options = opts
         /\ raw = res.raw
         /\ heap = res.heap
         /\ failedIds = {}
         /\ last = [op |-> "replace_pattern", text |-> <<>>, lead |-> "none",
                    index |-> index, pattern |-> pattern, ret |-> res.ret,
                    pre |-> built.raw, preHeap |-> Len(built.heap),
                    scan |-> <<0, 0>>]
         /\ thr = [t \in Threads |-> Idle]
         /\ held = None

Unsearched == last.op \in {"with_options", "replace_pattern"}

NextCaptures ==
  \/ Unsearched /\ Captures
  \/ Unsearched /\ CapturesWithOptions
  \/ Unsearched /\ CapturesWithEncoding

SpecCaptures == (InitSearch \/ InitReplaced) /\ [][NextCaptures]_vars

\* captures_with_options called by threads that share one set.  The call
\* is two steps on the set: the search (line 351), which writes the
\* regions, and the read of the winning slot's region (lines 352-358).
\* Nothing in RegSet orders the steps of one thread against another's.
ConcTexts == {<<"a", "1">>, <<"1", "a">>}

CapturesSearchStep(t) ==
  /\ phase = "live"
  /\ thr[t].pc = "idle"
  /\ \E text \in ConcTexts, lead \in RegSetLead, so \in SearchOptionsSet :
       LET f == find_with_options(heap, raw, text, lead, so)
       IN /\ raw' = f.raw
          /\ thr' = [thr EXCEPT ![t] = [pc |-> "searched", text |-> text,
                                        lead |-> lead, found |-> f.ret]]
  /\ UNCHANGED <<phase, options, heap, failedIds, last, held>>

CapturesRegionStep(t) ==
  /\ phase = "live"
  /\ thr[t].pc = "searched"
  /\ LET ret ==
           IF thr[t].found.tag = "Some"
           THEN LET regex_index == thr[t].found.val[1]
                    match_pos == thr[t].found.val[2]
                    region_ptr == onig_regset_get_region(raw, regex_index)
                IN IF region_ptr # 0
                   THEN Some(<<regex_index,
                               Captures_new(thr[t].text,
                                            Region_clone_from_raw(raw, region_ptr),
                                            match_pos)>>)
                   ELSE None
           ELSE None
     IN last' = [Call("captures_with_options", thr[t].text, thr[t].lead, 0, "",
                      ret) EXCEPT !.scan = <<0, Len(thr[t].text)>>]
  /\ thr' = [thr EXCEPT ![t] = Idle]
  /\ UNCHANGED <<phase, options, raw, heap, failedIds, held>>

NextConc ==
  \/ \E t \in Threads : CapturesSearchStep(t)
  \/ \E t \in Threads : CapturesRegionStep(t)

SpecConc == InitSearch /\ [][NextConc]_vars

\* A caller keeps the Captures of one captures_with_options call and then
\* searches or changes the set once more.
Holding == held # None /\ last.op = "captures_with_options"

NextHold ==
  \/ Fresh /\ CapturesWithOptions /\ last'.text \in ConcTexts
  \/ Holding /\ Find
  \/ Holding /\ Captures
  \/ Holding /\ AddPattern
  \/ Holding /\ ReplacePattern

SpecHold == InitSearch /\ [][NextHold]_vars

\* ------------------------------------------------------ claims: searches
SearchOps == {"find", "find_with_options", "captures", "captures_with_options"}

\* What slot i of the searched set finds on its own in the last call's text.
Attempt(i) ==
  match_in_range(heap[last.pre[i].reg], last.text, 0, Len(last.text))

\* The slots that produced a match in the last search.
Matched == {i \in 1..Len(last.pre) : Attempt(i).matched}

\* The (0-based) pattern index and the match start the last search returned.
RetIndex == last.ret.val[1]

RetStart ==
  IF last.op \in {"find", "find_with_options"}
  THEN last.ret.val[2]
  ELSE last.ret.val[2].region[1][1]

\* Slot w has the smallest start of all matches, and the smallest index of
\* the slots with that start.
EarliestLowest(w) ==
  /\ w \in Matched
  /\ \A j \in Matched :
       \/ Attempt(w).start < Attempt(j).start
       \/ Attempt(w).start = Attempt(j).start /\ w <= j

\* C1: under the Position policy (the one find and captures use) the search
\* returns the slot whose match starts first, and the lowest index among the
\* slots whose matches start there.
C1_PositionEarliestLowest ==
  (last.op \in SearchOps /\ last.lead = "Position" /\ Matched # {}) =>
    /\ last.ret.tag = "Some"
    /\ EarliestLowest(RetIndex + 1)
    /\ RetStart = Attempt(RetIndex + 1).start

\* find returned the second slot, whose match starts before the first slot's.
C1_Witness ==
  /\ last.op = "find"
  /\ last.ret.tag = "Some"
  /\ RetIndex = 1
  /\ 1 \in Matched
  /\ Attempt(2).start < Attempt(1).start

\* C2: under the Regex policy find_with_options and captures_with_options
\* return the lowest-indexed slot that has a match, with that slot's own
\* start, whatever the other slots' starts.
C2_RegexLowestIndex ==
  (/\ last.op \in {"find_with_options", "captures_with_options"}
   /\ last.lead = "Regex"
   /\ Matched # {}) =>
    /\ last.ret.tag = "Some"
    /\ RetIndex + 1 \in Matched
    /\ \A j \in Matched : RetIndex + 1 <= j
    /\ RetStart = Attempt(RetIndex + 1).start

\* The Regex policy returned slot 0 though slot 1 matches earlier in the text.
C2_Witness ==
  /\ last.op = "find_with_options"
  /\ last.lead = "Regex"
  /\ last.ret.tag = "Some"
  /\ RetIndex = 0
  /\ 2 \in Matched
  /\ Attempt(2).start < RetStart

\* C3: a PriorityToRegexOrder search returns the (index, start) a Position
\* search of the same set and text returns: the earliest start, and the
\* lowest index among the slots that share it.
C3_PriorityEqualsPosition ==
  (last.op \in {"find_with_options", "captures_with_options"}
   /\ last.lead = "PriorityToRegexOrder") =>
    LET pos == find_with_options(heap, last.pre, last.text, "Position",
                                 "SEARCH_OPTION_NONE").ret
    IN /\ last.ret.tag = pos.tag
       /\ last.ret.tag = "Some" =>
            /\ <<RetIndex, RetStart>> = pos.val
            /\ EarliestLowest(RetIndex + 1)

\* Two slots match at the same start and PriorityToRegexOrder returned the
\* lower one.
C3_Witness ==
  /\ last.op = "find_with_options"
  /\ last.lead = "PriorityToRegexOrder"
  /\ last.ret.tag = "Some"
  /\ \E i, j \in Matched :
       i < j /\ Attempt(i).start = Attempt(j).start /\ RetIndex + 1 = i
                /\ RetStart = Attempt(i).start

\* C4: whatever the policy, a search returns None exactly when no slot of
\* the set has a match in the text; so every search of an empty set does.
C4_NoneIffNoMatch ==
  (last.op \in SearchOps) => (last.ret = None <=> Matched = {})

\* captures on a set with slots, none of which matches, returned None.
C4_Witness ==
  /\ last.op = "captures"
  /\ Len(last.pre) > 0
  /\ Matched = {}
  /\ last.ret = None

\* ------------------------------------------- claims: ownership, mutation
Leads == RegSetLead

\* Short forms of the texts the test suite searches: a digit run after
\* letters, letters after a digit, a text no pattern matches.
ProbeTexts == {<<"a", "1">>, <<"1", "a">>, <<"A">>}

\* What a search of the set rs returns for text under lead.
SearchOf(rs, text, lead) ==
  find_with_options(heap, rs, text, lead, "SEARCH_OPTION_NONE").ret

\* What slot i of rs finds on its own in text.
AttemptIn(rs, i, text) == match_in_range(heap[rs[i].reg], text, 0, Len(text))

\* C5: a successful replace_pattern(index, p) has released the regex the
\* slot held exactly once, and the slot holds the regex this call compiled
\* from p, unreleased.
C5_ReplaceReleasesOld ==
  (last.op = "replace_pattern" /\ last.ret.tag = "Ok") =>
    LET old == last.pre[last.index + 1].reg
        cur == raw[last.index + 1].reg
    IN /\ heap[old].freed = 1
       /\ cur = last.preHeap + 1
       /\ cur # old
       /\ heap[cur].pattern = last.pattern
       /\ heap[cur].freed = 0

\* A replace_pattern of the second slot of a set succeeded.
C5_Witness ==
  /\ last.op = "replace_pattern"
  /\ last.ret.tag = "Ok"
  /\ last.index = 1
  /\ heap[last.pre[2].reg].freed = 1

\* C6: no regex is ever released twice; once the set is torn down every
\* regex in a slot, and every regex compiled by a call that failed, has
\* been released exactly once.
C6_ExactlyOnceRelease ==
  /\ \A id \in 1..Len(heap) : heap[id].freed <= 1
  /\ phase = "dropped" =>
       /\ \A i \in 1..Len(raw) : heap[raw[i].reg].freed = 1
       /\ \A id \in failedIds : heap[id].freed = 1

\* A set that went through a failed call and a successful replace_pattern
\* was torn down with a regex in a slot.
C6_Witness ==
  /\ phase = "dropped"
  /\ Len(raw) >= 1
  /\ failedIds # {}
  /\ \E id \in 1..Len(heap) :
       id \notin failedIds /\ \A i \in 1..Len(raw) : raw[i].reg # id

FirstInvalid(ps) ==
  CHOOSE k \in 1..Len(ps) :
    ~IsValidPattern(ps[k]) /\ \A j \in 1..(k - 1) : IsValidPattern(ps[j])

\* C7: when a pattern of the list does not compile, construction returns
\* that compile failure, has released every regex it compiled before it,
\* and hands no set to the caller.
C7_ConstructAllOrNothing ==
  (/\ last.op \in {"new", "with_options"}
   /\ \E k \in 1..Len(last.text) : ~IsValidPattern(last.text[k])) =>
    /\ last.ret = Err(Error_from_code(ONIGERR_PREMATURE_END_OF_CHAR_CLASS))
    /\ phase = "failed"
    /\ raw = <<>>
    /\ Len(heap) = FirstInvalid(last.text) - 1
    /\ \A id \in 1..Len(heap) : heap[id].freed = 1

\* with_options failed on its second pattern after compiling the first.
C7_Witness ==
  /\ last.op = "with_options"
  /\ last.ret.tag = "Err"
  /\ Len(last.text) = 2
  /\ IsValidPattern(last.text[1])
  /\ ~IsValidPattern(last.text[2])
  /\ Len(heap) = 1

\* C8: a failed add_pattern or replace_pattern leaves the set as it was:
\* the same length, every slot holding the regex it held, unreleased (a
\* search reads nothing else of the set, so searches return what they
\* returned before; the texts of the test suite are searched to show it).
C8_FailedMutationNoChange ==
  (last.op \in {"add_pattern", "replace_pattern"} /\ last.ret.tag = "Err") =>
    /\ len(raw) = len(last.pre)
    /\ \A i \in 1..Len(last.pre) :
         raw[i].reg = last.pre[i].reg /\ heap[raw[i].reg].freed = 0
    /\ raw = last.pre
    /\ \A text \in ProbeTexts, lead \in Leads :
         SearchOf(raw, text, lead) = SearchOf(last.pre, text, lead)

\* The engine refused a replace_pattern with a valid index and a valid
\* pattern.
C8_Witness ==
  /\ last.op = "replace_pattern"
  /\ last.ret = Err(Error_from_code(ONIGERR_INVALID_ARGUMENT))
  /\ last.index < Len(last.pre)
  /\ IsValidPattern(last.pattern)

\* C9: a successful add_pattern returns the length before the call, makes
\* the set one slot longer, leaves every earlier slot as it was, and the new
\* pattern is searched at the returned index.
C9_AddAppends ==
  (last.op = "add_pattern" /\ last.ret.tag = "Ok") =>
    /\ last.ret.val = len(last.pre)
    /\ len(raw) = len(last.pre) + 1
    /\ \A i \in 1..Len(last.pre) :
         raw[i].reg = last.pre[i].reg /\ heap[raw[i].reg].freed = 0
    /\ heap[raw[last.ret.val + 1].reg].pattern = last.pattern
    /\ heap[raw[last.ret.val + 1].reg].options = options
    /\ heap[raw[last.ret.val + 1].reg].freed = 0
    /\ \A text \in Texts :
         LET m == match_in_range(NewRegex(last.pattern, options), text, 0, Len(text))
         IN (/\ m.matched
             /\ \A i \in 1..Len(last.pre) : ~AttemptIn(last.pre, i, text).matched) =>
              \A lead \in Leads :
                SearchOf(raw, text, lead) = Some(<<last.ret.val, m.start>>)

\* add_pattern on a set with one slot returned index 1.
C9_Witness ==
  /\ last.op = "add_pattern"
  /\ last.ret = Ok(1)
  /\ Len(last.pre) = 1
  /\ Len(raw) = 2

\* The patterns of rs with p in slot index (0-based).
PatternsWith(rs, index, p) ==
  [i \in 1..Len(rs) |-> IF i = index + 1 THEN p ELSE heap[rs[i].reg].pattern]

\* A set newly built from the pattern list ps with the stored options.
BuiltFrom(ps) == with_options(<<>>, ps, options, TRUE, 0)

\* C10: a successful replace_pattern(index, p) keeps the length, leaves
\* every other slot holding the regex it held, and every search returns
\* what a set of the old patterns with p at index returns.
C10_ReplaceChangesOneSlot ==
  (last.op = "replace_pattern" /\ last.ret.tag = "Ok") =>
    /\ len(raw) = len(last.pre)
    /\ \A j \in 1..Len(last.pre) :
         j # last.index + 1 =>
           raw[j].reg = last.pre[j].reg /\ heap[raw[j].reg].freed = 0
    /\ heap[raw[last.index + 1].reg].pattern = last.pattern
    /\ LET built == BuiltFrom(PatternsWith(last.pre, last.index, last.pattern))
       IN \A text \in Texts, lead \in Leads :
            SearchOf(raw, text, lead) =
              find_with_options(built.heap, built.raw, text, lead,
                                "SEARCH_OPTION_NONE").ret

\* replace_pattern put a different pattern in the second slot of a set
\* whose first slot holds another pattern.
C10_Witness ==
  /\ last.op = "replace_pattern"
  /\ last.ret.tag = "Ok"
  /\ last.index = 1
  /\ heap[last.pre[2].reg].pattern # last.pattern
  /\ heap[last.pre[1].reg].pattern # last.pattern

\* C11: replace_pattern with an index at or past len() returns the bounds
\* error carrying that index and the current length, whether or not the
\* pattern is valid, and compiles nothing: no regex is created and the set
\* is as it was.
C11_ReplaceOutOfBounds ==
  (last.op = "replace_pattern" /\ last.index >= len(last.pre)) =>
    /\ last.ret = Err(Error_custom(last.index, len(last.pre)))
    /\ Len(heap) = last.preHeap
    /\ raw = last.pre

C11_Witness ==
  /\ last.op = "replace_pattern"
  /\ last.index >= len(last.pre)
  /\ len(last.pre) > 0
  /\ ~IsValidPattern(last.pattern)
  /\ last.ret = Err(Error_custom(last.index, len(last.pre)))

\* C12: the slots are numbered 0..len()-1 without a gap; a construction
\* from N patterns starts len() at N, a successful add_pattern raises it
\* by one, and no other step (a search, a replace_pattern, a failed call,
\* the teardown) changes it, so it never decreases.
LenStep ==
  /\ \A at \in 0..len(raw') :
       (onig_regset_get_region(raw', at) # 0) <=> (at < len(raw'))
  /\ (phase = "init" /\ phase' = "live") => len(raw') = Len(last'.text)
  /\ (phase = "init" /\ phase' = "failed") => len(raw') = 0
  /\ phase # "init" =>
       len(raw') = len(raw) + (IF last'.op = "add_pattern" /\ last'.ret.tag = "Ok"
                              THEN 1 ELSE 0)

C13_ConstructInOrder ==
  (last.op \in {"new", "with_options", "empty", "empty_with_options"}
     /\ last.ret.tag = "Ok") =>
    /\ len(raw) = Len(last.text)
    /\ \A i \in 1..Len(last.text) :
         /\ heap[raw[i].reg].pattern = last.text[i]
         /\ heap[raw[i].reg].options = last.pattern
    /\ (last.text = <<>>) => (len(raw) = 0 /\ is_empty(raw))
    /\ (last.text # <<>>) => ~is_empty(raw)

C13_Witness ==
  /\ last.op = "new"
  /\ last.ret.tag = "Ok"
  /\ last.text = <<"\\d+", "([a-z]+)">>
  /\ len(raw) = 2
  /\ heap[raw[2].reg].pattern = "([a-z]+)"

\* ------------------------------------------------------ claims: captures
CaptureOps == {"captures", "captures_with_options", "captures_with_encoding"}

\* The scan range of the last search lies inside its buffer.
ScanInBuffer ==
  /\ 0 <= last.scan[1]
  /\ last.scan[1] <= last.scan[2]
  /\ last.scan[2] <= Len(last.text)

\* C14: the captures a search returns for the winning slot have one span
\* per capturing group of the pattern now in that slot plus one; the
\* first span is there and is the (start, end) of the whole match; in a
\* set whose slot was replaced the groups are the new pattern's.
C14_CapturesOfCurrentPattern ==
  (last.op \in CaptureOps /\ last.ret.tag = "Some") =>
    LET reg == heap[raw[last.ret.val[1] + 1].reg]
        caps == last.ret.val[2]
        m == match_in_range(reg, last.text, last.scan[1], last.scan[2])
    IN /\ Len(caps.region) = 1 + NumGroups(reg.pattern)
       /\ Len(caps.region) >= 1
       /\ ScanInBuffer => (m.matched /\ caps.region[1] = <<m.start, m.end>>)

C14_Witness ==
  /\ last.op = "captures_with_options"
  /\ last.text = <<"a">>
  /\ last.ret.tag = "Some"
  /\ last.ret.val[1] = 0
  /\ Len(last.ret.val[2].region) = 2
  /\ last.ret.val[2].region[1] = <<0, 1>>
  /\ Len(heap) = 2
  /\ heap[1].pattern = "\\d+"
  /\ heap[1].freed = 1
  /\ raw[1].reg = 2
  /\ heap[2].pattern = "([a-z]+)"

\* --------------------------------------------------- claims: concurrency
InFlight == {t \in Threads : thr[t].pc # "idle"}

\* C15: at most one operation is in flight on a set at any time; no two
\* searches overlap.
C15_OneInFlight == Cardinality(InFlight) <= 1

\* C17: whatever the interleaving of the calls the type lets threads make
\* on one shared set, the spans a captures_with_options call returns are
\* those of the match its own search found for the winning slot.
C17_SpansOfOwnSearch ==
  (last.op = "captures_with_options" /\ last.ret.tag = "Some") =>
    LET reg == heap[raw[last.ret.val[1] + 1].reg]
    IN last.ret.val[2].region =
         RegionOf(reg, match_in_range(reg, last.text, 0, Len(last.text)))

\* ------------------------------------------- claims: the search variants
AllSearchOps == SearchOps \cup {"captures_with_encoding"}

\* C16: captures_with_encoding over the whole text, (0, len(text)),
\* returns None exactly when captures_with_options with the same text,
\* policy and options does, and otherwise the same pattern index and the
\* same spans.
C16_EncodedSameAsPlain ==
  (last.op = "captures_with_encoding" /\ last.scan = <<0, Len(last.text)>>) =>
    LET plain == captures_with_options(heap, last.pre, last.text, last.lead,
                                       "SEARCH_OPTION_NONE").ret
    IN /\ (last.ret.tag = "None") <=> (plain.tag = "None")
       /\ last.ret.tag = "Some" =>
            /\ last.ret.val[1] = plain.val[1]
            /\ last.ret.val[2].region = plain.val[2].region

C16_Witness ==
  /\ last.op = "captures_with_encoding"
  /\ last.text = <<"1", "a">>
  /\ last.scan = <<0, 2>>
  /\ last.lead = "Regex"
  /\ Len(last.pre) = 2
  /\ last.ret.tag = "Some"
  /\ last.ret.val[1] = 0
  /\ last.ret.val[2].region = <<<<1, 2>>, <<1, 2>>>>

\* C18: every search hands the engine a scan range with
\* 0 <= from <= to <= length of the buffer, whatever the arguments of
\* find, find_with_options, captures, captures_with_options and
\* captures_with_encoding.
C18_ScanRangeInBuffer == last.op \in AllSearchOps => ScanInBuffer

\* C19: a search whose range lies in its buffer leaves len(), the regex of
\* every slot, the regexes themselves and the options as they were, and
\* the same call made again on the set returns the same result.
SearchKeepsSet ==
  (last'.op \in AllSearchOps /\ ScanInBuffer') =>
    /\ len(raw') = len(raw)
    /\ \A i \in 1..Len(raw) : raw'[i].reg = raw[i].reg
    /\ heap' = heap
    /\ options' = options
    /\ (last.op = last'.op /\ last.text = last'.text /\ last.lead = last'.lead
          /\ last.scan = last'.scan) => last'.ret = last.ret

C19_SearchKeepsSet == [][SearchKeepsSet]_vars

\* A search repeated: the set it ran on already held the regions of the
\* same search.
C19_Witness ==
  /\ last.op = "find_with_options"
  /\ last.text = <<"1", "a">>
  /\ last.lead = "Regex"
  /\ last.ret = Some(<<0, 1>>)
  /\ Len(last.pre) = 2
  /\ last.pre[1].region = <<<<1, 2>>, <<1, 2>>>>
  /\ raw = last.pre

\* C20: captures_with_options returns Some exactly when find_with_options
\* with the same arguments does, with the same pattern index, and group 0
\* starts where find_with_options says the match starts.
C20_CapturesAgreesWithFind ==
  last.op = "captures_with_options" =>
    LET f == find_with_options(heap, last.pre, last.text, last.lead,
                               "SEARCH_OPTION_NONE").ret
    IN /\ (last.ret.tag = "Some") <=> (f.tag = "Some")
       /\ last.ret.tag = "Some" =>
            /\ last.ret.val[1] = f.val[1]
            /\ Len(last.ret.val[2].region) >= 1
            /\ last.ret.val[2].region[1][1] = f.val[2]

C20_Witness ==
  /\ last.op = "captures_with_options"
  /\ last.text = <<"1", "a">>
  /\ last.lead = "Regex"
  /\ Len(last.pre) = 2
  /\ last.ret.tag = "Some"
  /\ last.ret.val[1] = 0
  /\ last.ret.val[2].region[1][1] = 1

\* ------------------------------------------------ claims: kept captures
\* C21: the spans read through a Captures value a caller keeps are the
\* same after a later search, add_pattern or replace_pattern on the set
\* as they were before it.
KeptSpansStay ==
  (held.tag = "Some" /\ held'.tag = "Some") =>
    /\ held' = held
    /\ Captures_region(held', raw') = Captures_region(held, raw)

OptionsStep ==
  /\ (phase = "init" /\ phase' = "live") => options' = last'.pattern
  /\ phase # "init" => options' = options
  /\ phase' \in {"live", "dropped"} =>
       \A id \in 1..Len(heap') : heap'[id].options = options'

C22_OptionsFixed == [][OptionsStep]_vars

C22_Witness ==
  /\ last.op = "replace_pattern"
  /\ last.ret.tag = "Ok"
  /\ options = "REGEX_OPTION_IGNORECASE"
  /\ Len(heap) = 3
  /\ heap[raw[last.index + 1].reg].options = "REGEX_OPTION_IGNORECASE"
  /\ \E id \in 1..Len(heap) : heap[id].freed = 0 /\ id # raw[last.index + 1].reg

\* ------------------------------------------- claims: the plain queries
\* C23: find(text) returns what find_with_options(text, Position, none)
\* returns and scans the whole text; captures(text) returns None when
\* captures_with_options(text, Position, none) does and otherwise the same
\* index and spans, and scans the whole text.
C23_PlainIsPositionNone ==
  /\ last.op = "find" =>
       /\ last.ret = find_with_options(heap, last.pre, last.text, "Position",
                                       "SEARCH_OPTION_NONE").ret
       /\ last.scan = <<0, Len(last.text)>>
  /\ last.op = "captures" =>
       LET c == captures_with_options(heap, last.pre, last.text, "Position",
                                      "SEARCH_OPTION_NONE").ret
       IN /\ last.ret.tag = c.tag
          /\ last.ret.tag = "Some" =>
               /\ last.ret.val[1] = c.val[1]
               /\ last.ret.val[2].region = c.val[2].region
          /\ last.scan = <<0, Len(last.text)>>

C23_Witness ==
  /\ last.op = "captures"
  /\ last.text = <<"1", "a">>
  /\ Len(last.pre) = 2
  /\ heap[last.pre[1].reg].pattern = "([a-z]+)"
  /\ heap[last.pre[2].reg].pattern = "\\d+"
  /\ last.ret.tag = "Some"
  /\ last.ret.val[1] = 1
  /\ last.ret.val[2].region = <<<<0, 1>>>>

====
